---- MODULE Spec2Model ----
(***************************************************************************)
(* Model of the wheel build / upload / install / test orchestration of     *)
(* build_wheels.py and test_wheels.py.                                      *)
(*                                                                          *)
(* A behaviour follows one machine: either the build machine, on which     *)
(* build_wheels.py (commands build, upload) is run repeatedly, or the       *)
(* test machine, on which test_wheels.py (commands install, test) is run   *)
(* repeatedly.  Every external command is one step: it is launched, an      *)
(* arbitrary return code is drawn for it, and the code's reaction to that   *)
(* return code is applied.  The file system (/tmp/wheels, the clone         *)
(* directories) and the release host persist from one run to the next.     *)
(***************************************************************************)
EXTENDS Integers, Sequences, FiniteSets, TLC

VARIABLES
    script,     \* which of the two programs this machine runs
    cmd,        \* the typer command of the current run
    pc,         \* position of the current run ("idle" before the first run)
    runs,       \* number of runs started so far
    cuda,       \* --cuda
    arch,       \* --arch
    only,       \* --only as given (the empty set when it is not given)
    selected,   \* the lower-cased --only set
    idx,        \* position of the for loop in the registry (1-based)
    launched,   \* external commands launched by the current run, in order
    invoked,    \* step functions invoked by the current run, in order
    warnings,   \* step names for which install printed a WARNING
    passed,     \* test(): passed list
    failed,     \* test(): failed list
    skipped,    \* test(): skipped list
    exitCode,   \* exit code of the current run (meaningful at pc = "done")
    wheelDir,   \* files in WHEEL_DIR = /tmp/wheels on the build machine
    instDir,    \* files in the wheel_dir argument of install
    repoDir,    \* whether /tmp/flash-attention exists
    milesDir,   \* whether /tmp/miles exists
    releases    \* releases on the remote release host

vars == <<script, cmd, pc, runs, cuda, arch, only, selected, idx, launched, invoked,
          warnings, passed, failed, skipped, exitCode, wheelDir,
          instDir, repoDir, milesDir, releases>>

(***************************************************************************)
(* Bounds of the model.                                                     *)
(***************************************************************************)
MaxRuns == 2
MaxOnly == 2

(***************************************************************************)
(* Inputs and external outcomes.                                            *)
(***************************************************************************)
\* Return codes an external command may end with (0, a plain failure, a crash).
RetCodes == {0, 1, 137}

\* Exit code of the interpreter when an exception other than typer.Exit
\* (AssertionError, RuntimeError, CalledProcessError) reaches the top level.
Uncaught == 1

\* Values of --cuda and --arch; "131" is a version build and upload reject.
CudaArgs == {"129", "130", "131"}

ArchArgs == {"x86", "aarch64"}

\* Names a user may pass to --only: the registry keys, a key in upper case,
\* and a name that is in no registry.
OnlyNames ==
    {"flash-attn", "flash-attn-hopper", "apex", "int4_qat", "te", "APEX", "bogus"}

\* The --only lists (as sets; the code turns the list into a set at once).
\* The empty set stands for --only not given (only = None).
Onlys == {o \in SUBSET OnlyNames : Cardinality(o) <= MaxOnly}

\* str.lower on the names of OnlyNames.
lower(s) == IF s = "APEX" THEN "apex" ELSE s

\* cuda[:2] and cuda[2:] on the values of CudaArgs.
cuda_major(c) == CASE c = "129" -> "12" [] c = "130" -> "13" [] c = "131" -> "13"

cuda_minor(c) == CASE c = "129" -> "9" [] c = "130" -> "0" [] c = "131" -> "1"

\* Python compares cuda_major >= "13" as strings; on two-digit strings that
\* is the comparison of the numbers they spell.
AsNumber(s) == CASE s = "12" -> 12 [] s = "13" -> 13

(***************************************************************************)
(* The registries.                                                          *)
(***************************************************************************)
STEPS == <<"flash-attn", "flash-attn-hopper", "apex", "int4_qat", "te">>

INSTALL_STEPS == <<"flash-attn", "flash-attn-hopper", "apex", "int4_qat", "te">>

TEST_STEPS == <<"flash-attn", "flash-attn-hopper", "apex", "int4_qat">>

\* Faulty variant: the filter taken as given, without lower().
SelectedAsGiven(o) == o

\* selected = {s.lower() for s in (only or [])}
Selected(o) == {lower(s) : s \in o}

\* The loops' test `if selected and name not in selected`.
Skipping(name) == selected # {} /\ name \notin selected

(***************************************************************************)
(* Wheel files.  A file <dist>-<rest> is the record [dist, rest]; every     *)
(* file of the model ends in .whl.                                          *)
(***************************************************************************)
Whl(d, r) == [dist |-> d, rest |-> r]

basename(w) == w.dist \o "-" \o w.rest

\* The wheel each build step leaves in WHEEL_DIR when its commands succeed.
Product(step) ==
    CASE step = "flash-attn" -> Whl("flash_attn", "2.7.4.post1-cp310-linux.whl")
      [] step = "flash-attn-hopper" -> Whl("flash_attn_3", "3.0.0b1-cp39-linux.whl")
      [] step = "apex" -> Whl("apex", "0.1-cp310-linux.whl")
      [] step = "int4_qat" -> Whl("fake_int4_quant_cuda", "0.0.0-cp310-linux.whl")
      [] step = "te" -> Whl("transformer_engine", "2.10.0-py3-none-any.whl")

\* Every wheel file of the model, in the lexicographic order of the paths
\* ("-" sorts before "_", "0.1" before "0.2").
SortedWheels ==
    << Whl("apex", "0.1-cp310-linux.whl"),
       Whl("apex", "0.2-cp310-linux.whl"),
       Whl("fake_int4_quant_cuda", "0.0.0-cp310-linux.whl"),
       Whl("flash_attn", "2.7.4.post1-cp310-linux.whl"),
       Whl("flash_attn_3", "3.0.0b1-cp39-linux.whl"),
       Whl("transformer_engine", "2.10.0-py3-none-any.whl"),
       Whl("transformer_engine_torch", "2.10.0-cp310-linux.whl") >>

AllWheels == {SortedWheels[i] : i \in 1..Len(SortedWheels)}

\* sorted(glob.glob(os.path.join(dir, "*.whl")))
sorted_whl(dir) == SelectSeq(SortedWheels, LAMBDA w : w \in dir)

\* The dist names that start with "transformer_engine".
TEPrefixed == {"transformer_engine", "transformer_engine_torch"}

\* glob.glob(os.path.join(dir, pattern)) for the five patterns of the
\* install steps: "<dist>-*.whl" matches the files of that dist, and
\* "transformer_engine*.whl" every file whose name starts with it.
glob(dir, step) ==
    CASE step = "flash-attn" -> {w \in dir : w.dist = "flash_attn"}
      [] step = "flash-attn-hopper" -> {w \in dir : w.dist = "flash_attn_3"}
      [] step = "apex" -> {w \in dir : w.dist = "apex"}
      [] step = "int4_qat" -> {w \in dir : w.dist = "fake_int4_quant_cuda"}
      [] step = "te" -> {w \in dir : w.dist \in TEPrefixed}

\* Directories install may be pointed at.
InstDirs == SUBSET AllWheels

(***************************************************************************)
(* run(): launch a command, wait for it, exit with its code on failure.     *)
(***************************************************************************)
Launch(step, c, rc) == [step |-> step, cmd |-> c, rc |-> rc]

\* Faulty variant: a failing command ends the run with exit code 1, not with its own.
run_exit_one(step, c, rc, next) ==
    /\ launched' = Append(launched, Launch(step, c, rc))
    /\ IF rc # 0
         THEN pc' = "done" /\ exitCode' = 1
         ELSE pc' = next /\ exitCode' = exitCode

run(step, c, rc, next) ==
    /\ launched' = Append(launched, Launch(step, c, rc))
    /\ IF rc # 0
         THEN pc' = "done" /\ exitCode' = rc
         ELSE pc' = next /\ exitCode' = exitCode

\* A new process: nothing launched, invoked or reported yet.
FreshRun ==
    /\ pc = "idle"
    /\ runs < MaxRuns
    /\ runs' = runs + 1
    /\ launched' = <<>>
    /\ invoked' = <<>>
    /\ warnings' = <<>>
    /\ passed' = <<>>
    /\ failed' = <<>>
    /\ skipped' = <<>>
    /\ idx' = 1

(***************************************************************************)
(* build_wheels.py build                                                    *)
(***************************************************************************)
\* build(): the assertion on --cuda, makedirs and `selected`.  (_setup_env
\* only sets environment variables for the child processes.)
build ==
    /\ script = "build_wheels.py"
    /\ FreshRun
    /\ cmd' = "build"
    /\ \E c \in CudaArgs, a \in ArchArgs, o \in Onlys :
        /\ cuda' = c
        /\ arch' = a
        /\ only' = o
        /\ IF c \in {"129", "130"}
             THEN /\ selected' = Selected(o)
                  /\ pc' = "loop"
                  /\ exitCode' = 0
             ELSE /\ selected' = {}
                  /\ pc' = "done"
                  /\ exitCode' = Uncaught
    /\ UNCHANGED <<script, wheelDir, instDir, repoDir, milesDir, releases>>

\* for name, fn in STEPS.items(): skip, or call fn(cuda); after the loop, ls.
build_loop ==
    /\ cmd = "build" /\ pc = "loop"
    /\ IF idx > Len(STEPS)
         THEN pc' = "ls" /\ UNCHANGED <<idx, invoked>>
         ELSE IF Skipping(STEPS[idx])
           THEN idx' = idx + 1 /\ UNCHANGED <<pc, invoked>>
           ELSE /\ invoked' = Append(invoked, STEPS[idx])
                /\ pc' = STEPS[idx]
                /\ UNCHANGED idx
    /\ UNCHANGED <<script, cmd, runs, cuda, arch, only, selected, launched, warnings,
                   passed, failed, skipped, exitCode, wheelDir, instDir,
                   repoDir, milesDir, releases>>

\* What no build step touches.
BuildFrame ==
    UNCHANGED <<script, cmd, runs, cuda, arch, only, selected, invoked, warnings,
                passed, failed, skipped, instDir, releases>>

\* A step made of one `pip wheel` command.
PipWheel(step, c) ==
    /\ cmd = "build" /\ pc = step
    /\ \E rc \in RetCodes :
        /\ run(step, c, rc, "loop")
        /\ idx' = IF rc = 0 THEN idx + 1 ELSE idx
        /\ wheelDir' = IF rc = 0 THEN wheelDir \cup {Product(step)} ELSE wheelDir
    /\ BuildFrame
    /\ UNCHANGED <<repoDir, milesDir>>

_build_flash_attn == PipWheel("flash-attn", "pip wheel flash-attn==2.7.4.post1")

\* rmtree of a stale clone, then git clone.  A failed clone may or may not
\* leave the directory behind.
_build_flash_attn_hopper ==
    /\ cmd = "build" /\ pc = "flash-attn-hopper"
    /\ \E rc \in RetCodes, left \in BOOLEAN :
        /\ run("flash-attn-hopper", "git clone flash-attention", rc, "hopper:checkout")
        /\ repoDir' = IF rc = 0 THEN TRUE ELSE left
    /\ BuildFrame
    /\ UNCHANGED <<idx, wheelDir, milesDir>>

hopper_checkout ==
    /\ cmd = "build" /\ pc = "hopper:checkout"
    /\ \E rc \in RetCodes :
        run("flash-attn-hopper", "git checkout fbf24f67", rc, "hopper:submodule")
    /\ BuildFrame
    /\ UNCHANGED <<idx, wheelDir, repoDir, milesDir>>

hopper_submodule ==
    /\ cmd = "build" /\ pc = "hopper:submodule"
    /\ \E rc \in RetCodes :
        run("flash-attn-hopper", "git submodule update --init", rc, "hopper:bdist")
    /\ BuildFrame
    /\ UNCHANGED <<idx, wheelDir, repoDir, milesDir>>

\* setup.py bdist_wheel, then the copy of hopper/dist/*.whl and the rmtree.
hopper_bdist ==
    /\ cmd = "build" /\ pc = "hopper:bdist"
    /\ \E rc \in RetCodes :
        /\ run("flash-attn-hopper", "python setup.py bdist_wheel", rc, "loop")
        /\ idx' = IF rc = 0 THEN idx + 1 ELSE idx
        /\ wheelDir' = IF rc = 0 THEN wheelDir \cup {Product("flash-attn-hopper")}
                       ELSE wheelDir
        /\ repoDir' = IF rc = 0 THEN FALSE ELSE repoDir
    /\ BuildFrame
    /\ UNCHANGED milesDir

_build_apex == PipWheel("apex", "pip wheel git+https://github.com/NVIDIA/apex.git@10417ace")

\* rmtree of a stale clone, then git clone of miles.
_build_int4_qat ==
    /\ cmd = "build" /\ pc = "int4_qat"
    /\ \E rc \in RetCodes, left \in BOOLEAN :
        /\ run("int4_qat", "git clone miles", rc, "int4:wheel")
        /\ milesDir' = IF rc = 0 THEN TRUE ELSE left
    /\ BuildFrame
    /\ UNCHANGED <<idx, wheelDir, repoDir>>

int4_wheel ==
    /\ cmd = "build" /\ pc = "int4:wheel"
    /\ \E rc \in RetCodes :
        /\ run("int4_qat", "pip wheel .", rc, "loop")
        /\ idx' = IF rc = 0 THEN idx + 1 ELSE idx
        /\ wheelDir' = IF rc = 0 THEN wheelDir \cup {Product("int4_qat")} ELSE wheelDir
    /\ BuildFrame
    /\ UNCHANGED <<repoDir, milesDir>>

te_extras(c) == IF AsNumber(cuda_major(c)) >= 13 THEN "core_cu13,pytorch" ELSE "pytorch"

_build_transformer_engine ==
    PipWheel("te", "pip wheel transformer_engine[" \o te_extras(cuda) \o "]==2.10.0")

\* run(["ls", "-lh", WHEEL_DIR]) after the loop.
build_ls ==
    /\ cmd = "build" /\ pc = "ls"
    /\ \E rc \in RetCodes : run("", "ls -lh /tmp/wheels", rc, "done")
    /\ BuildFrame
    /\ UNCHANGED <<idx, wheelDir, repoDir, milesDir>>

NextBuild ==
    \/ build
    \/ build_loop
    \/ _build_flash_attn
    \/ _build_flash_attn_hopper
    \/ hopper_checkout
    \/ hopper_submodule
    \/ hopper_bdist
    \/ _build_apex
    \/ _build_int4_qat
    \/ int4_wheel
    \/ _build_transformer_engine
    \/ build_ls

(***************************************************************************)
(* build_wheels.py upload                                                   *)
(***************************************************************************)
arch_str(a) == IF a = "x86" THEN "x86_64" ELSE a

tag(c, a) == "cu" \o c \o "-" \o arch_str(a)

title(c, a) == "CUDA " \o cuda_major(c) \o "." \o cuda_minor(c) \o " + " \o arch_str(a)

\* names = [splitext(basename(w))[0].split("-")[0] for w in wheels]: the text
\* of each file name before its first "-".
names(wheels) == [i \in 1..Len(wheels) |-> wheels[i].dist]

Release(c, a, wheels, by) ==
    [tag |-> tag(c, a), title |-> title(c, a), notes |-> names(wheels),
     assets |-> wheels, run |-> by]

\* The releases the host holds under a tag.
Under(t) == {r \in releases : r.tag = t}

\* Faulty variant: upload without the test `if not wheels`.
upload_no_empty_check ==
    /\ script = "build_wheels.py"
    /\ FreshRun
    /\ cmd' = "upload"
    /\ \E c \in CudaArgs, a \in ArchArgs :
        /\ cuda' = c
        /\ arch' = a
        /\ IF c \notin {"129", "130"}
             THEN pc' = "done" /\ exitCode' = Uncaught
             ELSE pc' = "delete" /\ exitCode' = 0
    /\ only' = {}
    /\ selected' = {}
    /\ UNCHANGED <<script, wheelDir, instDir, repoDir, milesDir, releases>>

\* upload(): the assertion on --cuda and the glob of WHEEL_DIR.
upload ==
    /\ script = "build_wheels.py"
    /\ FreshRun
    /\ cmd' = "upload"
    /\ \E c \in CudaArgs, a \in ArchArgs :
        /\ cuda' = c
        /\ arch' = a
        /\ IF c \notin {"129", "130"}
             THEN pc' = "done" /\ exitCode' = Uncaught
             ELSE IF sorted_whl(wheelDir) = <<>>
               THEN pc' = "done" /\ exitCode' = 1
               ELSE pc' = "delete" /\ exitCode' = 0
    /\ only' = {}
    /\ selected' = {}
    /\ UNCHANGED <<script, wheelDir, instDir, repoDir, milesDir, releases>>

UploadFrame ==
    UNCHANGED <<script, cmd, runs, cuda, arch, only, selected, idx, invoked, warnings,
                passed, failed, skipped, wheelDir, instDir, repoDir, milesDir>>

\* Faulty variant: the delete launched through run(), so that its failure is fatal.
upload_delete_checked ==
    /\ cmd = "upload" /\ pc = "delete"
    /\ \E rc \in RetCodes, removed \in BOOLEAN :
        /\ rc = 0 => removed /\ Under(tag(cuda, arch)) # {}
        /\ removed => Under(tag(cuda, arch)) # {}
        /\ run("", "gh release delete " \o tag(cuda, arch), rc, "create")
        /\ releases' = IF removed THEN releases \ Under(tag(cuda, arch)) ELSE releases
    /\ UploadFrame

\* subprocess.run(["gh", "release", "delete", tag, ...], capture_output=True):
\* the return code is not looked at.  The host removes the release and
\* answers 0, or fails (nothing to delete, no connection) and answers
\* non-zero; a failure may come after the release itself was removed (the
\* tag cleanup failed).
upload_delete ==
    /\ cmd = "upload" /\ pc = "delete"
    /\ \E rc \in RetCodes, removed \in BOOLEAN :
        /\ rc = 0 => removed /\ Under(tag(cuda, arch)) # {}
        /\ removed => Under(tag(cuda, arch)) # {}
        /\ launched' = Append(launched, Launch("", "gh release delete " \o tag(cuda, arch), rc))
        /\ releases' = IF removed THEN releases \ Under(tag(cuda, arch)) ELSE releases
    /\ pc' = "create"
    /\ UNCHANGED exitCode
    /\ UploadFrame

\* Faulty variant: the create launched without a look at its return code.
upload_create_unchecked ==
    /\ cmd = "upload" /\ pc = "create"
    /\ \E rc \in RetCodes :
        /\ rc = 0 => Under(tag(cuda, arch)) = {}
        /\ launched' = Append(launched, Launch("", "gh release create " \o tag(cuda, arch), rc))
        /\ releases' = IF rc = 0
                         THEN releases \cup {Release(cuda, arch, sorted_whl(wheelDir), runs)}
                         ELSE releases
    /\ pc' = "done"
    /\ UNCHANGED exitCode
    /\ UploadFrame

\* run(["gh", "release", "create", tag, ..., *wheels]).  The host refuses a
\* second release under a tag that has one.
upload_create ==
    /\ cmd = "upload" /\ pc = "create"
    /\ \E rc \in RetCodes :
        /\ rc = 0 => Under(tag(cuda, arch)) = {}
        /\ run("", "gh release create " \o tag(cuda, arch), rc, "done")
        /\ releases' = IF rc = 0
                         THEN releases \cup {Release(cuda, arch, sorted_whl(wheelDir), runs)}
                         ELSE releases
    /\ UploadFrame

NextUpload ==
    \/ upload
    \/ upload_delete
    \/ upload_create

(***************************************************************************)
(* test_wheels.py install                                                   *)
(***************************************************************************)
install ==
    /\ script = "test_wheels.py"
    /\ FreshRun
    /\ cmd' = "install"
    /\ \E o \in Onlys, dir \in InstDirs :
        /\ only' = o
        /\ selected' = Selected(o)
        /\ instDir' = dir
    /\ pc' = "loop"
    /\ exitCode' = 0
    /\ UNCHANGED <<script, cuda, arch, wheelDir, repoDir, milesDir, releases>>

InstallFrame ==
    UNCHANGED <<script, cmd, runs, cuda, arch, only, selected, passed, failed, skipped,
                wheelDir, instDir, repoDir, milesDir, releases>>

\* for name, fn in INSTALL_STEPS.items(): skip, or call fn(wheel_dir) inside
\* the try; after the loop, "Install done."
install_loop ==
    /\ cmd = "install" /\ pc = "loop"
    /\ IF idx > Len(INSTALL_STEPS)
         THEN pc' = "done" /\ UNCHANGED <<idx, invoked>>
         ELSE IF Skipping(INSTALL_STEPS[idx])
           THEN idx' = idx + 1 /\ UNCHANGED <<pc, invoked>>
           ELSE /\ invoked' = Append(invoked, INSTALL_STEPS[idx])
                /\ pc' = INSTALL_STEPS[idx]
                /\ UNCHANGED idx
    /\ UNCHANGED <<launched, warnings, exitCode>>
    /\ InstallFrame

\* except FileNotFoundError: print the warning and go on with the loop.
NotFound(step) ==
    /\ warnings' = Append(warnings, step)
    /\ idx' = idx + 1
    /\ pc' = "loop"
    /\ UNCHANGED <<launched, exitCode>>

\* A RuntimeError (or any exception install does not catch) ends the process.
Raise ==
    /\ pc' = "done"
    /\ exitCode' = Uncaught
    /\ UNCHANGED <<launched, warnings, idx>>

\* Faulty variant: _find_wheel returns the first match when there are several.
FindAndPipFirst(step, next) ==
    LET matches == glob(instDir, step) IN
    IF matches = {}
      THEN NotFound(step)
      ELSE \E whl \in matches, rc \in RetCodes :
             /\ run(step, "pip install " \o basename(whl), rc, next)
             /\ idx' = IF rc = 0 /\ next = "loop" THEN idx + 1 ELSE idx
             /\ UNCHANGED warnings

\* whl = _find_wheel(wheel_dir, pattern); run([python, -m, pip, install, whl])
FindAndPip(step, next) ==
    LET matches == glob(instDir, step) IN
    IF matches = {}
      THEN NotFound(step)
      ELSE IF Cardinality(matches) > 1
        THEN Raise
        ELSE \E whl \in matches, rc \in RetCodes :
               /\ run(step, "pip install " \o basename(whl), rc, next)
               /\ idx' = IF rc = 0 /\ next = "loop" THEN idx + 1 ELSE idx
               /\ UNCHANGED warnings

_install_flash_attn ==
    /\ cmd = "install" /\ pc = "flash-attn"
    /\ FindAndPip("flash-attn", "loop")
    /\ InstallFrame
    /\ UNCHANGED invoked

_install_flash_attn_hopper ==
    /\ cmd = "install" /\ pc = "flash-attn-hopper"
    /\ FindAndPip("flash-attn-hopper", "hopper:site")
    /\ InstallFrame
    /\ UNCHANGED invoked

\* subprocess.check_output([python, -c, "import site; ..."]): a non-zero
\* return raises CalledProcessError, which install does not catch.
hopper_site ==
    /\ cmd = "install" /\ pc = "hopper:site"
    /\ \E rc \in RetCodes :
        /\ launched' = Append(launched, Launch("flash-attn-hopper", "python -c site", rc))
        /\ IF rc # 0
             THEN pc' = "done" /\ exitCode' = Uncaught
             ELSE pc' = "hopper:curl" /\ exitCode' = exitCode
    /\ UNCHANGED <<idx, warnings, invoked>>
    /\ InstallFrame

\* run(["curl", "-fSL", .../flash_attn_interface.py, ...]).  Where curl is
\* not installed subprocess.run raises FileNotFoundError, which install's
\* except clause takes for a missing wheel.
hopper_curl ==
    /\ cmd = "install" /\ pc = "hopper:curl"
    /\ \/ NotFound("flash-attn-hopper")
       \/ \E rc \in RetCodes :
            /\ run("flash-attn-hopper", "curl flash_attn_interface.py", rc, "loop")
            /\ idx' = IF rc = 0 THEN idx + 1 ELSE idx
            /\ UNCHANGED warnings
    /\ UNCHANGED invoked
    /\ InstallFrame

_install_apex ==
    /\ cmd = "install" /\ pc = "apex"
    /\ FindAndPip("apex", "loop")
    /\ InstallFrame
    /\ UNCHANGED invoked

_install_int4_qat ==
    /\ cmd = "install" /\ pc = "int4_qat"
    /\ FindAndPip("int4_qat", "loop")
    /\ InstallFrame
    /\ UNCHANGED invoked

\* The te wheels pip was already launched for in this run.
TeDone == {w \in instDir : \E i \in 1..Len(launched) :
              launched[i] = Launch("te", "pip install " \o basename(w), 0)}

\* for whl in glob.glob(.../transformer_engine*.whl): run(pip install whl).
\* glob.glob returns the matches in the directory's order, which is any order.
_install_te ==
    /\ cmd = "install" /\ pc = "te"
    /\ LET todo == glob(instDir, "te") \ TeDone IN
       IF todo = {}
         THEN /\ idx' = idx + 1
              /\ pc' = "loop"
              /\ UNCHANGED <<launched, exitCode>>
         ELSE /\ \E whl \in todo, rc \in RetCodes :
                   run("te", "pip install " \o basename(whl), rc, "te")
              /\ UNCHANGED idx
    /\ UNCHANGED <<warnings, invoked>>
    /\ InstallFrame

NextInstall ==
    \/ install
    \/ install_loop
    \/ _install_flash_attn
    \/ _install_flash_attn_hopper
    \/ hopper_site
    \/ hopper_curl
    \/ _install_apex
    \/ _install_int4_qat
    \/ _install_te

(***************************************************************************)
(* test_wheels.py test                                                      *)
(***************************************************************************)
test ==
    /\ script = "test_wheels.py"
    /\ FreshRun
    /\ cmd' = "test"
    /\ \E o \in Onlys : only' = o /\ selected' = Selected(o)
    /\ pc' = "loop"
    /\ exitCode' = 0
    /\ UNCHANGED <<script, cuda, arch, wheelDir, instDir, repoDir, milesDir,
                   releases>>

TestFrame ==
    UNCHANGED <<script, cmd, runs, cuda, arch, only, selected, warnings, wheelDir,
                instDir, repoDir, milesDir, releases>>

\* Faulty variant: the skip branch without its `continue`.
test_loop_no_continue ==
    /\ cmd = "test" /\ pc = "loop"
    /\ IF idx > Len(TEST_STEPS)
         THEN /\ pc' = "done"
              /\ exitCode' = IF failed # <<>> THEN 1 ELSE 0
              /\ UNCHANGED <<idx, invoked, skipped>>
         ELSE /\ skipped' = IF Skipping(TEST_STEPS[idx])
                              THEN Append(skipped, TEST_STEPS[idx]) ELSE skipped
              /\ invoked' = Append(invoked, TEST_STEPS[idx])
              /\ pc' = "running"
              /\ UNCHANGED <<idx, exitCode>>
    /\ UNCHANGED <<launched, passed, failed>>
    /\ TestFrame

\* for name in TEST_STEPS: skipped.append(name), or spawn the subprocess;
\* after the loop the summary, and Exit(1) if failed.
test_loop ==
    /\ cmd = "test" /\ pc = "loop"
    /\ IF idx > Len(TEST_STEPS)
         THEN /\ pc' = "done"
              /\ exitCode' = IF failed # <<>> THEN 1 ELSE 0
              /\ UNCHANGED <<idx, invoked, skipped>>
         ELSE IF Skipping(TEST_STEPS[idx])
           THEN /\ skipped' = Append(skipped, TEST_STEPS[idx])
                /\ idx' = idx + 1
                /\ UNCHANGED <<pc, invoked, exitCode>>
           ELSE /\ invoked' = Append(invoked, TEST_STEPS[idx])
                /\ pc' = "running"
                /\ UNCHANGED <<idx, skipped, exitCode>>
    /\ UNCHANGED <<launched, passed, failed>>
    /\ TestFrame

\* Faulty variant: a failing test ends the run, as run() would.
test_result_abort ==
    /\ cmd = "test" /\ pc = "running"
    /\ \E rc \in RetCodes :
        /\ launched' = Append(launched, Launch(TEST_STEPS[idx], "python test_wheels.py --run-step", rc))
        /\ IF rc = 0
             THEN /\ passed' = Append(passed, TEST_STEPS[idx])
                  /\ UNCHANGED <<failed, exitCode>>
                  /\ pc' = "loop"
             ELSE /\ failed' = Append(failed, TEST_STEPS[idx])
                  /\ UNCHANGED passed
                  /\ pc' = "done"
                  /\ exitCode' = rc
    /\ idx' = idx + 1
    /\ UNCHANGED <<invoked, skipped>>
    /\ TestFrame

\* The subprocess `python test_wheels.py --run-step name` ends: it exits 0
\* when the step function returns, non-zero when it raises or crashes.
test_result ==
    /\ cmd = "test" /\ pc = "running"
    /\ \E rc \in RetCodes :
        /\ launched' = Append(launched, Launch(TEST_STEPS[idx], "python test_wheels.py --run-step", rc))
        /\ IF rc = 0
             THEN passed' = Append(passed, TEST_STEPS[idx]) /\ UNCHANGED failed
             ELSE failed' = Append(failed, TEST_STEPS[idx]) /\ UNCHANGED passed
    /\ idx' = idx + 1
    /\ pc' = "loop"
    /\ UNCHANGED <<invoked, skipped, exitCode>>
    /\ TestFrame

NextTest ==
    \/ test
    \/ test_result
    \/ test_loop

(***************************************************************************)
(* The process ends; its memory is gone, the file system and the release    *)
(* host stay as they are.                                                   *)
(***************************************************************************)
process_exit ==
    /\ pc = "done"
    /\ pc' = "idle"
    /\ cmd' = "none"
    /\ cuda' = "129"
    /\ arch' = "x86"
    /\ only' = {}
    /\ selected' = {}
    /\ idx' = 1
    /\ launched' = <<>>
    /\ invoked' = <<>>
    /\ warnings' = <<>>
    /\ passed' = <<>>
    /\ failed' = <<>>
    /\ skipped' = <<>>
    /\ exitCode' = 0
    /\ instDir' = {}
    /\ UNCHANGED <<script, runs, wheelDir, repoDir, milesDir, releases>>

\* A machine on which nothing was run yet.  The release host is empty, or
\* holds the release of an earlier `build --only apex` and `upload` for
\* cu129-x86_64 (run 0) whose wheels are no longer in /tmp/wheels.
Init ==
    /\ script \in {"build_wheels.py", "test_wheels.py"}
    /\ cmd = "none"
    /\ pc = "idle"
    /\ runs = 0
    /\ cuda = "129"
    /\ arch = "x86"
    /\ only = {}
    /\ selected = {}
    /\ idx = 1
    /\ launched = <<>>
    /\ invoked = <<>>
    /\ warnings = <<>>
    /\ passed = <<>>
    /\ failed = <<>>
    /\ skipped = <<>>
    /\ exitCode = 0
    /\ instDir = {}
    /\ repoDir = FALSE
    /\ milesDir = FALSE
    /\ wheelDir = {}
    /\ \/ releases = {}
       \/ /\ script = "build_wheels.py"
          /\ releases = {Release("129", "x86", <<Product("apex")>>, 0)}

Next ==
    \/ NextBuild
    \/ NextUpload
    \/ NextInstall
    \/ NextTest
    \/ process_exit

Spec == Init /\ [][Next]_vars

(***************************************************************************)
(* Vocabulary of the properties.                                            *)
(***************************************************************************)
Range(q) == {q[i] : i \in 1..Len(q)}

IsPrefix(q, r) == Len(q) <= Len(r) /\ \A i \in 1..Len(q) : q[i] = r[i]

\* The registry the current command loops over.
Registry ==
    CASE cmd = "build" -> STEPS
      [] cmd = "install" -> INSTALL_STEPS
      [] cmd = "test" -> TEST_STEPS
      [] OTHER -> <<>>

\* The names of the --only filter, lower-cased.
Named == {lower(n) : n \in only}

\* The registry's key order restricted to the names of the filter.
Restricted == SelectSeq(Registry, LAMBDA n : n \in Named)

\* A name the current run is to process: no filter, or named by it.
Wanted(n) == only = {} \/ n \in Named

\* The positions of `launched` that belong to a step.
LaunchesOf(step) == {i \in 1..Len(launched) : launched[i].step = step}

PipOf(w) == "pip install " \o basename(w)

\* The positions of `launched` that are a pip install of a step.
PipLaunchesOf(step) ==
    {i \in LaunchesOf(step) : \E w \in AllWheels : launched[i].cmd = PipOf(w)}

\* The tag of the release for the current --cuda and --arch.
TagOfRun ==
    CASE cuda = "129" /\ arch = "x86" -> "cu129-x86_64"
      [] cuda = "129" /\ arch = "aarch64" -> "cu129-aarch64"
      [] cuda = "130" /\ arch = "x86" -> "cu130-x86_64"
      [] cuda = "130" /\ arch = "aarch64" -> "cu130-aarch64"
      [] OTHER -> "none"

(***************************************************************************)
(* C1                                                                       *)
(***************************************************************************)
\* C1 as stated: when build, install or test is given an --only filter and
\* has ended, the step functions it invoked are exactly the registry's keys
\* named by the lower-cased filter, in registry order.  (Runs that the
\* assertion on --cuda rejects are left aside.)
C1_ExactlyNamed ==
    (/\ cmd \in {"build", "install", "test"}
     /\ only # {}
     /\ pc = "done"
     /\ cuda \in {"129", "130"})
    => invoked = Restricted

\* C1, amended: with an --only filter given to build, install or test, the
\* step functions invoked so far are always a prefix of the registry's key
\* order restricted to the lower-cased filter (so each named step is invoked
\* at most once, no other step is, and unknown names invoke nothing); the
\* whole restricted sequence has been invoked whenever the loop ran to its
\* end, which is the case whenever the command exits 0 and always for test.
\* A filter of unknown names only launches no step command and is no error.
C1_NamedPrefix ==
    (cmd \in {"build", "install", "test"} /\ only # {}) =>
        /\ IsPrefix(invoked, Restricted)
        /\ idx > Len(Registry) => invoked = Restricted
        /\ (pc = "done" /\ (cmd = "test" \/ exitCode = 0)) => invoked = Restricted
        /\ (pc = "done" /\ Restricted = <<>>) =>
              /\ \A i \in 1..Len(launched) : launched[i].step = ""
              /\ cmd # "build" => exitCode = 0

\* C1 witness: `build --only APEX --only bogus` ran to its end and invoked
\* the apex step alone.
C1_Witness ==
    /\ cmd = "build" /\ pc = "done" /\ exitCode = 0
    /\ only = {"APEX", "bogus"}
    /\ invoked = <<"apex">>

(***************************************************************************)
(* C2                                                                       *)
(***************************************************************************)
\* C2: in build, a command that returns non-zero is the last command the run
\* launches (no further command of the step, no later step, no retry), the
\* run has ended and its exit code is that return code; no command is
\* launched twice; and a build that exits 0 launched only commands that
\* returned 0.
C2_FirstFailureAborts ==
    cmd = "build" =>
        /\ \A i \in 1..Len(launched) :
              launched[i].rc # 0 =>
                 /\ i = Len(launched)
                 /\ pc = "done"
                 /\ exitCode = launched[i].rc
                 /\ launched[i].step # "" => invoked[Len(invoked)] = launched[i].step
        /\ \A i, j \in 1..Len(launched) :
              (launched[i].step = launched[j].step /\ launched[i].cmd = launched[j].cmd)
                 => i = j
        /\ (pc = "done" /\ exitCode = 0) => \A i \in 1..Len(launched) : launched[i].rc = 0

\* C2 witness: a full build whose git checkout in flash-attn-hopper crashed;
\* the run ended there with 137 and apex, int4_qat and te were never invoked.
C2_Witness ==
    /\ cmd = "build" /\ pc = "done" /\ only = {}
    /\ Len(launched) = 3
    /\ launched[3] = Launch("flash-attn-hopper", "git checkout fbf24f67", 137)
    /\ exitCode = 137
    /\ invoked = <<"flash-attn", "flash-attn-hopper">>

(***************************************************************************)
(* C3                                                                       *)
(***************************************************************************)
\* C3: when test has ended, every registered test that was selected was
\* spawned exactly once, is in `failed` iff its subprocess returned non-zero
\* and in `passed` iff it returned 0, and the exit code is non-zero (it is 1)
\* iff some selected test failed.
C3_TestsIsolated ==
    (cmd = "test" /\ pc = "done") =>
        /\ \A n \in Range(TEST_STEPS) :
              Wanted(n) =>
                 /\ Cardinality(LaunchesOf(n)) = 1
                 /\ Cardinality({i \in 1..Len(invoked) : invoked[i] = n}) = 1
                 /\ \A i \in LaunchesOf(n) :
                       /\ launched[i].rc # 0 <=> n \in Range(failed)
                       /\ launched[i].rc = 0 <=> n \in Range(passed)
        /\ exitCode # 0 <=> failed # <<>>
        /\ failed # <<>> => exitCode = 1

\* C3 witness: `test --only flash-attn --only apex`, flash-attn exits 0 and
\* apex 137: one passed, one failed, two skipped, exit code 1.
C3_Witness ==
    /\ cmd = "test" /\ pc = "done"
    /\ only = {"flash-attn", "apex"}
    /\ Len(launched) = 2 /\ launched[1].rc = 0 /\ launched[2].rc = 137
    /\ passed = <<"flash-attn">> /\ failed = <<"apex">> /\ Len(skipped) = 2
    /\ exitCode = 1

(***************************************************************************)
(* C4                                                                       *)
(***************************************************************************)
\* C4 as stated: in install, once the step of a selected package whose glob
\* matches no wheel is over, a warning was printed for the package and no
\* pip install was launched for it; and an install in which nothing else
\* failed went through every selected package and exits 0.
C4_NotFoundWarns ==
    cmd = "install" =>
        /\ \A p \in Range(invoked) :
              (glob(instDir, p) = {} /\ pc # p) =>
                 /\ p \in Range(warnings)
                 /\ PipLaunchesOf(p) = {}
        /\ (/\ pc = "done"
            /\ \A i \in 1..Len(launched) : launched[i].rc = 0
            /\ \A p \in Range(invoked) \ {"te"} : Cardinality(glob(instDir, p)) <= 1)
           => /\ exitCode = 0
              /\ invoked = SelectSeq(INSTALL_STEPS, Wanted)

\* What does hold of a missing wheel: for every package but te the warning
\* is printed; for every package, te too, no pip install is launched, the
\* loop goes on, and the run exits 0 unless something else fails.
C4_ExceptTeWarning ==
    cmd = "install" =>
        /\ \A p \in Range(invoked) :
              (glob(instDir, p) = {} /\ pc # p) =>
                 /\ p # "te" => p \in Range(warnings)
                 /\ PipLaunchesOf(p) = {}
        /\ (/\ pc = "done"
            /\ \A i \in 1..Len(launched) : launched[i].rc = 0
            /\ \A p \in Range(invoked) \ {"te"} : Cardinality(glob(instDir, p)) <= 1)
           => /\ exitCode = 0
              /\ invoked = SelectSeq(INSTALL_STEPS, Wanted)

(***************************************************************************)
(* C5                                                                       *)
(***************************************************************************)
\* The release an upload that has just ended with 0 must have left.
ReleaseOfRun ==
    [tag |-> TagOfRun, title |-> title(cuda, arch),
     notes |-> names(sorted_whl(wheelDir)), assets |-> sorted_whl(wheelDir),
     run |-> runs]

C5_OnePerTag ==
    /\ \A r1, r2 \in releases : r1.tag = r2.tag => r1 = r2
    /\ (cmd = "upload" /\ pc = "done" /\ exitCode = 0) =>
          {r \in releases : r.tag = TagOfRun} = {ReleaseOfRun}

C5_HostStep ==
    releases' # releases =>
        /\ cmd = "upload"
        /\ \/ /\ pc = "delete"
              /\ releases' = {r \in releases : r.tag # TagOfRun}
           \/ /\ pc = "create"
              /\ {r \in releases : r.tag = TagOfRun} = {}
              /\ releases' = releases \cup {ReleaseOfRun}

\* C5: the release host never holds two releases under one tag; an upload
\* that ends with 0 leaves under its tag exactly the release it created
\* itself (its run, its wheels), so a second upload replaces the first; and
\* the host changes only by the delete step removing the tag's release and
\* by the create step adding one under a tag that holds none.
C5_SingleRelease == []C5_OnePerTag /\ [][C5_HostStep]_vars

\* C5 witness: a second upload for cu129-x86_64 with the wheel set of the
\* first (the apex wheel) ended with 0: its delete removed the release of
\* run 0, and the tag holds the release of this run and no other.
C5_Witness ==
    /\ cmd = "upload" /\ pc = "done" /\ exitCode = 0
    /\ cuda = "129" /\ arch = "x86"
    /\ sorted_whl(wheelDir) = <<Product("apex")>>
    /\ launched[1].rc = 0
    /\ releases = {ReleaseOfRun}
    /\ ReleaseOfRun.run = 2

(***************************************************************************)
(* C6                                                                       *)
(***************************************************************************)
\* C6: upload launches at most two commands, the delete first and the create
\* second; after the delete, whatever it returned, the run goes on to the
\* create; after the create the run has ended with the create's return code.
C6_DeleteBestEffort ==
    cmd = "upload" =>
        /\ Len(launched) <= 2
        /\ Len(launched) >= 1 =>
              launched[1].cmd = "gh release delete " \o TagOfRun
        /\ Len(launched) = 1 => pc = "create" /\ exitCode = 0
        /\ Len(launched) = 2 =>
              /\ launched[2].cmd = "gh release create " \o TagOfRun
              /\ pc = "done"
              /\ exitCode = launched[2].rc

\* C6 witness: the delete returned 1, the create was launched all the same
\* and crashed with 137, which is the exit code.
C6_Witness ==
    /\ cmd = "upload" /\ pc = "done"
    /\ Len(launched) = 2
    /\ launched[1].rc = 1
    /\ launched[2].rc = 137
    /\ exitCode = 137

(***************************************************************************)
(* C7                                                                       *)
(***************************************************************************)
C7_NoWheels ==
    (cmd = "upload" /\ wheelDir = {}) =>
        pc = "done" /\ exitCode = 1 /\ launched = <<>>

C7_HostUntouched ==
    (cmd' = "upload" /\ wheelDir' = {}) => releases' = releases

\* C7: an upload that finds no .whl file in /tmp/wheels has ended at once
\* with exit code 1, has launched neither the delete nor the create, and has
\* left the releases of the host as they were.
C7_EmptyAborts == []C7_NoWheels /\ [][C7_HostUntouched]_vars

\* C7 witness: upload for cu129-x86_64 on a machine without wheels while the
\* host holds a release under that tag: exit 1, the release still there.
C7_Witness ==
    /\ cmd = "upload" /\ pc = "done" /\ exitCode = 1
    /\ cuda = "129" /\ arch = "x86"
    /\ wheelDir = {}
    /\ launched = <<>>
    /\ \E r \in releases : r.tag = "cu129-x86_64"

(***************************************************************************)
(* C8                                                                       *)
(***************************************************************************)
\* C8 as stated: when a build whose flash-attn-hopper step cloned the tree
\* (git clone returned 0) has ended, /tmp/flash-attention does not exist,
\* whatever the later commands of the step returned.
C8_CloneRemoved ==
    (/\ cmd = "build"
     /\ pc = "done"
     /\ Launch("flash-attn-hopper", "git clone flash-attention", 0) \in Range(launched))
    => ~repoDir

(***************************************************************************)
(* C9                                                                       *)
(***************************************************************************)
\* C9: in install, for a package other than te, a pip install is launched
\* only if exactly one wheel matches its glob, and for that wheel; if more
\* than one matches, the run ends with the exit code of an uncaught
\* exception, launches no pip install for the package, prints no warning
\* for it and invokes no later package.  For te, several matches are no
\* error: pip install is launched for matching wheels only, once each, for
\* all of them when the step returns, and the step ends the run only by a
\* pip install that returned non-zero.
C9_ExactlyOneWheel ==
    cmd = "install" =>
        /\ \A p \in Range(invoked) \ {"te"} :
              /\ (Cardinality(glob(instDir, p)) > 1 /\ pc # p) =>
                    /\ pc = "done"
                    /\ exitCode = Uncaught
                    /\ LaunchesOf(p) = {}
                    /\ p \notin Range(warnings)
                    /\ invoked[Len(invoked)] = p
              /\ \A i \in PipLaunchesOf(p) :
                    /\ Cardinality(glob(instDir, p)) = 1
                    /\ \E w \in glob(instDir, p) : launched[i].cmd = PipOf(w)
        /\ "te" \in Range(invoked) =>
              /\ \A i \in LaunchesOf("te") :
                    \E w \in glob(instDir, "te") : launched[i].cmd = PipOf(w)
              /\ \A i, j \in LaunchesOf("te") :
                    launched[i].cmd = launched[j].cmd => i = j
              /\ (pc \in {"loop", "done"} /\ \A i \in LaunchesOf("te") : launched[i].rc = 0)
                    => \A w \in glob(instDir, "te") :
                          \E i \in LaunchesOf("te") : launched[i] = Launch("te", PipOf(w), 0)
              /\ (pc = "done" /\ exitCode # 0) =>
                    /\ LaunchesOf("te") # {}
                    /\ launched[Len(launched)].step = "te"
                    /\ launched[Len(launched)].rc = exitCode

\* C9 witness: a full install from a directory with two apex wheels and two
\* te wheels: flash-attn was installed, apex ended the run with 1, and te,
\* though selected, was never reached.
C9_Witness ==
    /\ cmd = "install" /\ pc = "done" /\ only = {}
    /\ exitCode = 1
    /\ Cardinality(glob(instDir, "apex")) = 2
    /\ Cardinality(glob(instDir, "te")) = 2
    /\ invoked[Len(invoked)] = "apex"
    /\ Len(launched) >= 1 /\ launched[1].rc = 0
    /\ LaunchesOf("apex") = {}

\* A second case of C9: both te wheels of a directory were installed.
C9_TeWitness ==
    /\ cmd = "install" /\ pc = "done" /\ exitCode = 0
    /\ Cardinality(glob(instDir, "te")) = 2
    /\ Cardinality(LaunchesOf("te")) = 2

(***************************************************************************)
(* C10                                                                      *)
(***************************************************************************)
\* The state of a registered test name in the state machine of the spec.
Status(n) ==
    IF n \in Range(skipped) THEN "skipped"
    ELSE IF n \in Range(passed) THEN "passed"
    ELSE IF n \in Range(failed) THEN "failed"
    ELSE IF pc = "running" /\ TEST_STEPS[idx] = n THEN "running"
    ELSE "pending"

C10_Lists ==
    cmd = "test" =>
        \A n \in Range(TEST_STEPS) :
           /\ Cardinality({q \in {passed, failed, skipped} : n \in Range(q)}) <= 1
           /\ Status(n) = "skipped" =>
                 /\ ~Wanted(n)
                 /\ n \notin Range(invoked)
                 /\ LaunchesOf(n) = {}
           /\ Status(n) = "running" => n \in Range(invoked) /\ LaunchesOf(n) = {}
           /\ Status(n) = "passed" =>
                 n \in Range(invoked) /\ \E i \in LaunchesOf(n) : launched[i].rc = 0
           /\ Status(n) = "failed" =>
                 n \in Range(invoked) /\ \E i \in LaunchesOf(n) : launched[i].rc # 0
           /\ Status(n) = "pending" => n \notin Range(invoked)
           /\ pc = "done" =>
                 /\ Status(n) \in {"passed", "failed", "skipped"}
                 /\ Cardinality({q \in {passed, failed, skipped} : n \in Range(q)}) = 1
                 /\ Cardinality({i \in 1..Len(passed) : passed[i] = n})
                      + Cardinality({i \in 1..Len(failed) : failed[i] = n})
                      + Cardinality({i \in 1..Len(skipped) : skipped[i] = n}) = 1

C10_Moves ==
    (cmd = "test" /\ cmd' = "test") =>
        \A n \in Range(TEST_STEPS) :
           \/ Status(n)' = Status(n)
           \/ Status(n) = "pending" /\ Status(n)' = "running" /\ Wanted(n)
           \/ Status(n) = "pending" /\ Status(n)' = "skipped" /\ ~Wanted(n)
           \/ Status(n) = "running" /\ Status(n)' \in {"passed", "failed"}

\* C10: during test every registered name is pending, running, passed,
\* failed or skipped; it moves only pending -> running -> passed or failed,
\* or pending -> skipped when the filter excludes it; passed, failed and
\* skipped are never left; a skipped name was never spawned, a passed or
\* failed one was spawned and its subprocess has exited; and when the run
\* has ended every registered name is in exactly one of the three lists,
\* once.
C10_StateMachine == []C10_Lists /\ [][C10_Moves]_vars

\* C10 witness: `test --only flash-attn-hopper --only apex`: flash-attn was
\* skipped, flash-attn-hopper failed, apex is running, int4_qat is pending.
C10_Witness ==
    /\ cmd = "test" /\ pc = "running"
    /\ Status("flash-attn") = "skipped"
    /\ Status("flash-attn-hopper") = "failed"
    /\ Status("apex") = "running"
    /\ Status("int4_qat") = "pending"

====
